---- MODULE Spec2Model ----
(***************************************************************************)
(* Model of the report assembly engine                                     *)
(*   src/frontend/src/utils/generateReport.js  (generateReport)            *)
(*                                                                         *)
(* One generateReport invocation is a single cooperative task.  Its        *)
(* synchronous segments are the actions below; it suspends only at the     *)
(* awaits of the image acquisitions.  Lengths are millimetres and are kept *)
(* as exact fractions <<numerator, denominator>>: the code divides native  *)
(* pixel sizes, so the write cursor is not integral in general.            *)
(* The A4 page of jsPDF is taken as 210 x 297 mm.                          *)
(*                                                                         *)
(* The callers are modelled next to it:                                    *)
(*   src/frontend/src/components/Dashboard.jsx    (submit, handleDownload, *)
(*       handleSatelliteChange, handleDemChange), with generateReport      *)
(*       composed into handleDownload;                                     *)
(*   src/frontend/src/components/FileManager.jsx  (handleAddFiles,         *)
(*       handleRemove, handleDateChange and the onDataChange effect).      *)
(***************************************************************************)
EXTENDS Integers, Sequences, FiniteSets, TLC

\* ---------------------------------------------------------------- bounds
MaxRecords == 3
MaxRows == 17

\* ------------------------------------------------------------ fractions
\* gcd and frac are functions so that their arguments are evaluated once
gcd[a \in Nat, b \in Nat] == IF b = 0 THEN a ELSE gcd[b, a % b]
GCD(a, b) == gcd[a, b]

frac[n \in Int, d \in Int] == <<n \div GCD(n, d), d \div GCD(n, d)>>
Frac(n, d) == frac[n, d]
Num(i) == <<i, 1>>
Plus(a, b) == Frac(a[1] * b[2] + b[1] * a[2], a[2] * b[2])
Times(a, b) == Frac(a[1] * b[1], a[2] * b[2])
Over(a, b) == Frac(a[1] * b[2], a[2] * b[1])
Gt(a, b) == a[1] * b[2] > b[1] * a[2]
Leq(a, b) == ~Gt(a, b)
Zero == Num(0)

\* ------------------------------------------------------ page geometry
pageWidth == 210
pageHeight == 297
margin == 15

\* pageHeight - margin, the bottom limit used by every page-break check
BottomLimit == Num(pageHeight - margin)
\* margin + 10, the cursor after every doc.addPage()
TopCursor == Num(margin + 10)
\* pageWidth - (2 * margin)
maxW == Num(pageWidth - (2 * margin))

DetailEstimate == 80
RemoteEstimate == 120
ChartEstimate == 70
RemoteMaxH == 120
DetailMaxH == 100
RowHeight == 8

\* ------------------------------------------------------------- inputs
\* A record is reduced to the image slots the code looks at (TRUE = the
\* slot holds a filename).  composite_map is carried although no line of
\* generateReport reads it.
Shape(cmp, res, cvm, cpm) ==
    [comparison_map |-> cmp, result_image |-> res,
     combined_volume_map |-> cvm, composite_map |-> cpm]

PlainRecord == Shape(FALSE, FALSE, FALSE, FALSE)

RecordShapes ==
    { PlainRecord,
      Shape(TRUE, FALSE, FALSE, FALSE),
      Shape(FALSE, TRUE, FALSE, FALSE),
      Shape(TRUE, TRUE, TRUE, FALSE),
      Shape(FALSE, FALSE, TRUE, TRUE) }

\* native pixel sizes <<width, height>> a loaded bitmap may report
NativeSizes == { <<4, 3>>, <<7, 2>> }

SeqsUpTo(S, n) == UNION { [1..k -> S] : k \in 0..n }

VARIABLES
    records,    \* the results argument
    pc,         \* position of the task
    idx,        \* index of the forEach / for-of iteration (1-based)
    cursorY,    \* the closure variable cursorY
    numPages,   \* doc.getNumberOfPages()
    curPage,    \* the page jsPDF currently draws on
    opacity,    \* current graphics state opacity, in percent
    pageCount,  \* const pageCount (0 until line 336 runs)
    pageNo,     \* the overlay loop variable i
    ops,        \* every draw / page operation so far, in order
    acq,        \* every image acquisition so far, in order
    saved,      \* number of doc.save() calls
    chartIds,   \* the captureChart calls that are live
    chartIdx,   \* next captureChart call
    elements,   \* ids for which document.querySelector finds an element
    style,      \* style of each chart element: "original" or "capture"
    prev,       \* the logs of the previous generateReport invocation
    \* Dashboard.jsx (component state)
    satelliteData,  \* useState([]): the items of the satellite manager
    dem,            \* useState(null): the DEM file
    result,         \* useState(null): the analysis result
    resultFor,      \* the satellite items the request behind result was issued with
    request,        \* the analyzeLake call in flight
    loading,        \* useState(false)
    downloading,    \* useState(false)
    error,          \* useState(null)
    escaped,        \* rejections that left handleDownload
    clicks,         \* handleDownload invocations so far
    \* FileManager.jsx (props and component state)
    multiple,       \* prop multiple
    showDate,       \* prop showDate
    items,          \* useState([])
    nextId,         \* the next fresh item id
    event,          \* the last event a FileManager handler was called with
    notified        \* the items last passed to onDataChange

report == <<records, pc, idx, cursorY, numPages, curPage, opacity, pageCount,
            pageNo, ops, acq, saved, chartIds, chartIdx, elements, style>>
dash == <<satelliteData, dem, result, resultFor, request, loading,
          downloading, error, escaped, clicks>>
files == <<multiple, showDate, items, nextId, event, notified>>
ui == <<prev, dash, files>>

vars == <<report, ui>>

ChartCalls == <<"#area-chart", "#volume-chart">>
ChartIdSet == { ChartCalls[i] : i \in 1..Len(ChartCalls) }

\* ---------------------------------------------------------- operations log
Op(kind, rec, page, y, alpha) ==
    [op |-> kind, rec |-> rec, page |-> page, y |-> y, w |-> Zero, h |-> Zero,
     iw |-> 0, ih |-> 0, alpha |-> alpha, label |-> "", no |-> 0]

Labelled(kind, label, page, y, alpha) ==
    [Op(kind, 0, page, y, alpha) EXCEPT !.label = label]

Sized(kind, rec, page, y, alpha, w, h, iw, ih) ==
    [Op(kind, rec, page, y, alpha) EXCEPT !.w = w, !.h = h, !.iw = iw, !.ih = ih]

\* variant: the opacity is not reset before the footer
StampOpsNoReset(page, no) ==
    << Op("setOpacity", 0, page, Zero, 36),
       [Op("watermark", 0, page, Over(Num(pageHeight - 80), Num(2)), 36)
           EXCEPT !.w = Num(80), !.h = Num(80)],
       [Op("footer", 0, page, Num(pageHeight - 10), 36) EXCEPT !.no = no] >>

\* the graphics-state opacity a sequence of operations leaves behind
OpacityAfter(seq, alpha) == seq[Len(seq)].alpha

\* addFooterAndWatermark(pageNo) on the page selected by doc.setPage
StampOps(page, no) ==
    << Op("setOpacity", 0, page, Zero, 36),
       [Op("watermark", 0, page, Over(Num(pageHeight - 80), Num(2)), 36)
           EXCEPT !.w = Num(80), !.h = Num(80)],
       Op("setOpacity", 0, page, Zero, 100),
       [Op("footer", 0, page, Num(pageHeight - 10), 100) EXCEPT !.no = no] >>

\* ------------------------------------------------------------ page flow
\* variant: the margin is left out of the bottom limit
NeedsBreakNoMargin(y, H) == Gt(Plus(y, Num(H)), Num(pageHeight))

\* the condition  cursorY + H > pageHeight - margin
NeedsBreak(y, H) == Gt(Plus(y, Num(H)), BottomLimit)

\* variant: the header band is repeated on every page that is created
AddPageBanded(p, alpha) ==
    << Op("addPage", 0, p, Zero, alpha),
       [Op("headerBand", 0, p, Zero, alpha) EXCEPT !.h = Num(40)] >>

\* variant: every page is stamped at the moment it is created
AddPageStamped(p, alpha) == << Op("addPage", 0, p, Zero, alpha) >> \o StampOps(p, p)

\* doc.addPage(): the operations one page creation contributes
AddPageOps(p, alpha) == << Op("addPage", 0, p, Zero, alpha) >>

\* if (cursorY + H > pageHeight - margin) { doc.addPage(); cursorY = margin + 10; }
\* returns the operations, the page drawn on afterwards and the cursor
CheckOp(H, page, y, alpha) ==
    [Op("check", 0, page, y, alpha) EXCEPT !.h = Num(H)]

\* variant: the check is made but never adds a page
ReserveNever(H, page, y, alpha) ==
    [ops |-> <<CheckOp(H, page, y, alpha)>>, page |-> page, y |-> y, added |-> 0]

\* variant: the page is added but cursorY is not reset
ReserveNoReset(H, page, y, alpha) ==
    IF NeedsBreak(y, H)
    THEN [ops |-> <<CheckOp(H, page, y, alpha)>> \o AddPageOps(page + 1, alpha),
          page |-> page + 1, y |-> y, added |-> 1]
    ELSE [ops |-> <<CheckOp(H, page, y, alpha)>>,
          page |-> page, y |-> y, added |-> 0]

Reserve(H, page, y, alpha) ==
    IF NeedsBreak(y, H)
    THEN [ops |-> <<CheckOp(H, page, y, alpha)>> \o AddPageOps(page + 1, alpha),
          page |-> page + 1, y |-> TopCursor, added |-> 1]
    ELSE [ops |-> <<CheckOp(H, page, y, alpha)>>,
          page |-> page, y |-> y, added |-> 0]

\* addSectionHeader(title, y): draws at y, returns y + 15
SectionHeaderOp(title, page, y, alpha) == Labelled("sectionHeader", title, page, y, alpha)
AfterSectionHeader(y) == Plus(y, Num(15))

\* ------------------------------------------------------------- scaling
\* variant: the height is clamped but the width is not recomputed
FitHeightOnly(iw, ih, mW, mH) ==
    LET h0 == Over(Times(Num(ih), mW), Num(iw)) IN
    [w |-> mW, h |-> IF Gt(h0, mH) THEN mH ELSE h0]

\* w = maxW; h = ih * w / iw; if (h > maxH) { h = maxH; w = iw * h / ih }
Fit(iw, ih, mW, mH) ==
    LET h0 == Over(Times(Num(ih), mW), Num(iw)) IN
    IF Gt(h0, mH)
    THEN [w |-> Over(Times(Num(iw), mH), Num(ih)), h |-> mH]
    ELSE [w |-> mW, h |-> h0]

\* imgWidth = pageWidth - 2 * margin; imgHeight = canvas.height * imgWidth / canvas.width
FitChart(cw, ch, mW) ==
    [w |-> mW, h |-> Over(Times(Num(ch), mW), Num(cw))]

\* ---------------------------------------------------------------- Init
NullResult == [null |-> TRUE, data |-> << >>]
NoRequest == [active |-> FALSE, sel |-> << >>]
NoError == "null"
NoPrev == [set |-> FALSE, records |-> << >>, ops |-> << >>, acq |-> << >>]

\* Dashboard as mounted: the useState initial values of lines 48-59
InitDashboard ==
    /\ satelliteData = << >>
    /\ dem = "null"
    /\ result = NullResult
    /\ resultFor = << >>
    /\ request = NoRequest
    /\ loading = FALSE
    /\ downloading = FALSE
    /\ error = NoError
    /\ escaped = 0
    /\ clicks = 0

Event(kind, fs, id, date) == [kind |-> kind, files |-> fs, id |-> id, date |-> date]

\* a FileManager as mounted (multiple and showDate default to true); the
\* effect of lines 16-18 has passed the empty list to onDataChange
InitFileManager ==
    /\ items = << >>
    /\ nextId = 1
    /\ event = Event("mount", << >>, 0, "null")
    /\ notified = << >>

InitUi ==
    /\ prev = NoPrev
    /\ InitDashboard
    /\ multiple = TRUE
    /\ showDate = TRUE
    /\ InitFileManager

InitCommon ==
    /\ InitUi
    /\ pc = "start"
    /\ idx = 0
    /\ cursorY = Zero
    /\ numPages = 1
    /\ curPage = 1
    /\ opacity = 100
    /\ pageCount = 0
    /\ pageNo = 0
    /\ ops = << >>
    /\ acq = << >>
    /\ saved = 0
    /\ chartIdx = 1
    /\ style = [e \in ChartIdSet |-> "original"]

\* generateReport as shipped: the two captureChart calls are commented out
Init ==
    /\ records \in SeqsUpTo(RecordShapes, MaxRecords)
    /\ chartIds = << >>
    /\ elements = {}
    /\ InitCommon

\* --------------------------------------------------------- acquisitions
Pending(rec, slot) == [rec |-> rec, slot |-> slot, status |-> "pending"]
Settle(log, status) == [log EXCEPT ![Len(log)].status = status]

\* variant: a record without comparison_map is taken to have a result_image
ImgSlotNoNullCheck(res) ==
    IF res.comparison_map THEN "comparison_map" ELSE "result_image"

\* variant: result_image is preferred to comparison_map
ImgSlotResultFirst(res) ==
    IF res.result_image THEN "result_image"
    ELSE IF res.comparison_map THEN "comparison_map"
    ELSE "none"

\* const imgFile = res.comparison_map || res.result_image
ImgSlot(res) ==
    IF res.comparison_map THEN "comparison_map"
    ELSE IF res.result_image THEN "result_image"
    ELSE "none"

\* variant: neither onload nor onerror is wired to the promise
AwaitDetailLost == "lost"

\* variant: the load is started but not awaited
RemoteNotAwaited == "detail"

\* await new Promise(...): where the task is after starting the load
AwaitRemotePc == "awaitRemote"
AwaitDetailPc == "awaitDetail"

\* ------------------------------------------------- lines 30-101: page 1
\* cursorY = 55; += 10; += 20; += 45; addSectionHeader; += 10
TitleY == Num(55)
ProjectY == Plus(TitleY, Num(10))
MissionY == Plus(ProjectY, Num(20))
MetricsY == Plus(MissionY, Num(45))
TableHeaderY == AfterSectionHeader(MetricsY)
FirstRowY == Plus(TableHeaderY, Num(10))

StaticOps(page, alpha) ==
    << [Op("headerBand", 0, page, Zero, alpha) EXCEPT !.h = Num(40)],
       Labelled("reportTitle", "AUTOMATED WATER SPREAD & VOLUME REPORT", page, TitleY, alpha),
       Labelled("projectTitle", "Project", page, ProjectY, alpha),
       [Op("mission", 0, page, MissionY, alpha) EXCEPT !.h = Num(35)],
       SectionHeaderOp("Hydrological Metrics", page, MetricsY, alpha),
       [Op("tableHeader", 0, page, TableHeaderY, alpha) EXCEPT !.h = Num(10)] >>

DrawStatic ==
    /\ pc = "start"
    /\ ops' = ops \o StaticOps(curPage, opacity)
    /\ cursorY' = FirstRowY
    /\ idx' = 1
    /\ pc' = "table"
    /\ UNCHANGED <<ui, records, numPages, curPage, opacity, pageCount, pageNo,
                   acq, saved, chartIds, chartIdx, elements, style>>

\* ------------------------------------------- lines 107-130: table rows
\* one iteration of results.forEach: the row is drawn at cursorY, then
\* cursorY += 8
\* variant: the row text is drawn inside the alternating-colour branch
RowOpsOddOnly(k, page, y, alpha) ==
    IF k % 2 = 0
    THEN << [Op("row", k, page, y, alpha) EXCEPT !.h = Num(RowHeight)] >>
    ELSE << >>

RowOps(k, page, y, alpha) ==
    << [Op("row", k, page, y, alpha) EXCEPT !.h = Num(RowHeight)] >>

DrawTableRow ==
    /\ pc = "table"
    /\ idx <= Len(records)
    /\ ops' = ops \o RowOps(idx, curPage, cursorY, opacity)
    /\ cursorY' = Plus(cursorY, Num(RowHeight))
    /\ idx' = idx + 1
    /\ UNCHANGED <<ui, records, pc, numPages, curPage, opacity, pageCount, pageNo,
                   acq, saved, chartIds, chartIdx, elements, style>>

\* line 132
EndTable ==
    /\ pc = "table"
    /\ idx > Len(records)
    /\ cursorY' = Plus(cursorY, Num(15))
    /\ pc' = "charts"
    /\ UNCHANGED <<ui, records, idx, numPages, curPage, opacity, pageCount, pageNo,
                   ops, acq, saved, chartIds, chartIdx, elements, style>>

\* --------------------------------------- lines 139-186: captureChart
ChartAbsent ==
    /\ pc = "charts"
    /\ chartIdx <= Len(chartIds)
    /\ chartIds[chartIdx] \notin elements
    /\ chartIdx' = chartIdx + 1
    /\ UNCHANGED <<ui, records, pc, idx, cursorY, numPages, curPage, opacity,
                   pageCount, pageNo, ops, acq, saved, chartIds, elements, style>>

\* lines 143-164: page-break check, heading, style override, suspension
ChartBegin ==
    /\ pc = "charts"
    /\ chartIdx <= Len(chartIds)
    /\ chartIds[chartIdx] \in elements
    /\ LET r == Reserve(ChartEstimate, curPage, cursorY, opacity) IN
         /\ ops' = ops \o r.ops \o <<SectionHeaderOp(chartIds[chartIdx], r.page, r.y, opacity)>>
         /\ cursorY' = AfterSectionHeader(r.y)
         /\ curPage' = r.page
         /\ numPages' = numPages + r.added
    /\ style' = [style EXCEPT ![chartIds[chartIdx]] = "capture"]
    /\ acq' = Append(acq, Pending(0, chartIds[chartIdx]))
    /\ pc' = "awaitChart"
    /\ UNCHANGED <<ui, records, idx, opacity, pageCount, pageNo, saved, chartIds,
                   chartIdx, elements>>

\* lines 172-181: html2canvas resolved with a canvas of size <<cw, ch>>
ChartCaptured ==
    /\ pc = "awaitChart"
    /\ \E size \in NativeSizes :
         LET f == FitChart(size[1], size[2], maxW) IN
           /\ ops' = Append(ops, Sized("chartImage", 0, curPage, cursorY, opacity,
                                       f.w, f.h, size[1], size[2]))
           /\ cursorY' = Plus(Plus(cursorY, f.h), Num(10))
    /\ style' = [style EXCEPT ![chartIds[chartIdx]] = "original"]
    /\ acq' = Settle(acq, "loaded")
    /\ chartIdx' = chartIdx + 1
    /\ pc' = "charts"
    /\ UNCHANGED <<ui, records, idx, numPages, curPage, opacity, pageCount, pageNo,
                   saved, chartIds, elements>>

\* lines 182-184: html2canvas rejected; the catch block only warns
ChartFailed ==
    /\ pc = "awaitChart"
    /\ acq' = Settle(acq, "failed")
    /\ chartIdx' = chartIdx + 1
    /\ pc' = "charts"
    /\ UNCHANGED <<ui, records, idx, cursorY, numPages, curPage, opacity, pageCount,
                   pageNo, ops, saved, chartIds, elements, style>>

\* lines 188-189: no (further) captureChart call
ChartsDone ==
    /\ pc = "charts"
    /\ chartIdx > Len(chartIds)
    /\ pc' = "maps"
    /\ UNCHANGED <<ui, records, idx, cursorY, numPages, curPage, opacity, pageCount,
                   pageNo, ops, acq, saved, chartIds, chartIdx, elements, style>>

\* ------------------------------- lines 193-243: combined volume map
\* variant: the first record that has a combined map is used
CombinedSourceAnyRecord(recs) ==
    IF \E k \in 1..Len(recs) : recs[k].combined_volume_map
    THEN CHOOSE k \in 1..Len(recs) :
           /\ recs[k].combined_volume_map
           /\ \A j \in 1..(k - 1) : ~recs[j].combined_volume_map
    ELSE 0

\* variant: the combined map section is disabled as well
CombinedSourceNone(recs) == 0

\* line 241: results.length > 0 && results[0].combined_volume_map
\* the record whose combined map is drawn, 0 when there is none
CombinedSource(recs) ==
    IF Len(recs) > 0 /\ recs[1].combined_volume_map THEN 1 ELSE 0

\* line 241 and lines 194-212: reference present, page-break check,
\* heading, then the task suspends on the load of the image
StartRemoteImage ==
    /\ pc = "maps"
    /\ CombinedSource(records) # 0
    /\ LET r == Reserve(RemoteEstimate, curPage, cursorY, opacity) IN
         /\ ops' = ops \o r.ops
                       \o <<SectionHeaderOp("Multi-Temporal 3D Volumetric View",
                                            r.page, r.y, opacity)>>
         /\ cursorY' = AfterSectionHeader(r.y)
         /\ curPage' = r.page
         /\ numPages' = numPages + r.added
    /\ acq' = Append(acq, Pending(CombinedSource(records), "combined_volume_map"))
    /\ pc' = AwaitRemotePc
    /\ UNCHANGED <<ui, records, idx, opacity, pageCount, pageNo, saved, chartIds,
                   chartIdx, elements, style>>

\* line 241 false (or line 194 returns)
SkipRemoteImage ==
    /\ pc = "maps"
    /\ CombinedSource(records) = 0
    /\ pc' = "detail"
    /\ UNCHANGED <<ui, records, idx, cursorY, numPages, curPage, opacity, pageCount,
                   pageNo, ops, acq, saved, chartIds, chartIdx, elements, style>>

\* lines 214-230: img.onload fired, native size <<iw, ih>>
RemoteLoaded ==
    /\ pc = "awaitRemote"
    /\ \E size \in NativeSizes :
         LET f == Fit(size[1], size[2], maxW, Num(RemoteMaxH)) IN
           /\ ops' = Append(ops, Sized("remoteImage", acq[Len(acq)].rec, curPage, cursorY, opacity,
                                       f.w, f.h, size[1], size[2]))
           /\ cursorY' = Plus(Plus(cursorY, f.h), Num(10))
    /\ acq' = Settle(acq, "loaded")
    /\ pc' = "detail"
    /\ UNCHANGED <<ui, records, idx, numPages, curPage, opacity, pageCount, pageNo,
                   saved, chartIds, chartIdx, elements, style>>

\* lines 232-234: the catch block warns, addRemoteImage returns normally
RemoteFailure == [pc |-> "detail"]

\* lines 232-234: img.onerror fired (or addImage threw)
RemoteFailed ==
    /\ pc = "awaitRemote"
    /\ acq' = Settle(acq, "failed")
    /\ pc' = RemoteFailure.pc
    /\ UNCHANGED <<ui, records, idx, cursorY, numPages, curPage, opacity, pageCount,
                   pageNo, ops, saved, chartIds, chartIdx, elements, style>>

\* ------------------------------ lines 246-320: individual breakdown
\* lines 246-249: forced page, heading (results.length > 0)
\* variant: the page is added only when the first block would not fit
ForcedBreakIfNeeded(page, y, alpha) == Reserve(DetailEstimate, page, y, alpha)

\* lines 247-248: doc.addPage(); cursorY = margin + 10 (unconditional)
ForcedBreak(page, y, alpha) ==
    [ops |-> AddPageOps(page + 1, alpha), page |-> page + 1, y |-> TopCursor,
     added |-> 1]

\* variant: the Detailed Analysis page is added whatever the input
HasDetailAlways(recs) == TRUE

\* line 246: results.length > 0
HasDetail(recs) == Len(recs) > 0

BeginDetail ==
    /\ pc = "detail"
    /\ HasDetail(records)
    /\ LET b == ForcedBreak(numPages, cursorY, opacity) IN
         /\ ops' = ops \o b.ops
                       \o <<SectionHeaderOp("Detailed Analysis", b.page, b.y, opacity)>>
         /\ numPages' = numPages + b.added
         /\ curPage' = b.page
         /\ cursorY' = AfterSectionHeader(b.y)
    /\ idx' = 1
    /\ pc' = "loop"
    /\ UNCHANGED <<ui, records, opacity, pageCount, pageNo, acq, saved, chartIds,
                   chartIdx, elements, style>>

\* line 246 false
SkipDetail ==
    /\ pc = "detail"
    /\ ~HasDetail(records)
    /\ pc' = "footer"
    /\ UNCHANGED <<ui, records, idx, cursorY, numPages, curPage, opacity, pageCount,
                   pageNo, ops, acq, saved, chartIds, chartIdx, elements, style>>

\* variant: the page-break check is made after the title line
DetailHeadLateCheck(k, page, y, alpha) ==
    LET r == Reserve(DetailEstimate, page, Plus(y, Num(5)), alpha) IN
      [ops |-> << Op("blockTitle", k, page, y, alpha) >> \o r.ops
                 \o << Op("blockStats", k, r.page, r.y, alpha) >>,
       page |-> r.page, y |-> Plus(r.y, Num(5)), added |-> r.added]

\* lines 253-271: page-break check, title line (cursorY += 5), stats line
\* (cursorY += 5)
DetailHead(k, page, y, alpha) ==
    LET r == Reserve(DetailEstimate, page, y, alpha) IN
      [ops |-> r.ops \o << Op("blockTitle", k, r.page, r.y, alpha),
                           Op("blockStats", k, r.page, Plus(r.y, Num(5)), alpha) >>,
       page |-> r.page, y |-> Plus(r.y, Num(10)), added |-> r.added]

\* lines 313-318: cursorY += 5; separator line at cursorY; cursorY += 10
DetailTail(k, page, y, alpha) ==
    [ops |-> << Op("separator", k, page, Plus(y, Num(5)), alpha) >>,
     y |-> Plus(y, Num(15))]

\* variant: the catch block leaves the loop
DetailFailureBreak(k, page, y, alpha) ==
    [ops |-> << [Labelled("blockMarker", "[Image Unavailable]", page,
                          Plus(y, Num(10)), alpha) EXCEPT !.rec = k] >>,
     y |-> Plus(y, Num(20)), pc |-> "footer"]

\* variant: no catch block, the rejection leaves generateReport
DetailFailureUncaught(k, page, y, alpha) ==
    [ops |-> << >>, y |-> y, pc |-> "rejected"]

\* lines 303-318: the catch block draws the marker at cursorY + 10, adds 20
\* to cursorY, and the iteration goes on with the separator
DetailFailure(k, page, y, alpha) ==
    LET tl == DetailTail(k, page, Plus(y, Num(20)), alpha) IN
      [ops |-> << [Labelled("blockMarker", "[Image Unavailable]", page,
                            Plus(y, Num(10)), alpha) EXCEPT !.rec = k] >> \o tl.ops,
       y |-> tl.y, pc |-> "loop"]

\* variant: the image reference is normalised in place
\* (res.comparison_map = res.comparison_map || res.result_image)
ReadRecordNormalising(recs, k) ==
    [recs EXCEPT ![k].comparison_map = recs[k].comparison_map \/ recs[k].result_image]

\* lines 252-275: res is only read (date, area_ha, volume_tmc,
\* comparison_map, result_image); neither res nor results is assigned
ReadRecord(recs, k) == recs

\* variant: the last record is left out
HasNextButLast(i, n) == i < n

\* the for-of loop has a next record
HasNext(i, n) == i <= n

\* one iteration for a record without comparison_map and result_image
\* (lines 253-275, 307-318)
DetailBlockNoImage ==
    /\ pc = "loop"
    /\ HasNext(idx, Len(records))
    /\ ImgSlot(records[idx]) = "none"
    /\ LET hd == DetailHead(idx, curPage, cursorY, opacity)
           tl == DetailTail(idx, hd.page, Plus(hd.y, Num(5)), opacity) IN
         /\ ops' = ops \o hd.ops \o tl.ops
         /\ cursorY' = tl.y
         /\ curPage' = hd.page
         /\ numPages' = numPages + hd.added
    /\ idx' = idx + 1
    /\ records' = ReadRecord(records, idx)
    /\ UNCHANGED <<ui, pc, opacity, pageCount, pageNo, acq, saved,
                   chartIds, chartIdx, elements, style>>

\* lines 253-287: head of the block, then the task suspends on the load
DetailBlockStart ==
    /\ pc = "loop"
    /\ HasNext(idx, Len(records))
    /\ ImgSlot(records[idx]) # "none"
    /\ LET hd == DetailHead(idx, curPage, cursorY, opacity) IN
         /\ ops' = ops \o hd.ops
         /\ cursorY' = hd.y
         /\ curPage' = hd.page
         /\ numPages' = numPages + hd.added
    /\ acq' = Append(acq, Pending(idx, ImgSlot(records[idx])))
    /\ pc' = AwaitDetailPc
    /\ records' = ReadRecord(records, idx)
    /\ UNCHANGED <<ui, idx, opacity, pageCount, pageNo, saved, chartIds,
                   chartIdx, elements, style>>

\* lines 289-301 and 313-318: img.onload fired with native size <<iw, ih>>
DetailLoaded ==
    /\ pc = "awaitDetail"
    /\ \E size \in NativeSizes :
         LET f == Fit(size[1], size[2], maxW, Num(DetailMaxH))
             tl == DetailTail(idx, curPage, Plus(Plus(cursorY, f.h), Num(10)), opacity) IN
           /\ ops' = ops \o << Sized("blockImage", idx, curPage, cursorY, opacity,
                                     f.w, f.h, size[1], size[2]) >>
                         \o tl.ops
           /\ cursorY' = tl.y
    /\ acq' = Settle(acq, "loaded")
    /\ idx' = idx + 1
    /\ pc' = "loop"
    /\ UNCHANGED <<ui, records, numPages, curPage, opacity, pageCount, pageNo, saved,
                   chartIds, chartIdx, elements, style>>

\* lines 303-306 and 313-318: img.onerror fired (or addImage threw)
DetailFailed ==
    /\ pc = "awaitDetail"
    /\ LET f == DetailFailure(idx, curPage, cursorY, opacity) IN
         /\ ops' = ops \o f.ops
         /\ cursorY' = f.y
         /\ pc' = f.pc
    /\ acq' = Settle(acq, "failed")
    /\ idx' = idx + 1
    /\ UNCHANGED <<ui, records, numPages, curPage, opacity, pageCount, pageNo, saved,
                   chartIds, chartIdx, elements, style>>

\* the for-of loop is exhausted
EndLoop ==
    /\ pc = "loop"
    /\ ~HasNext(idx, Len(records))
    /\ pc' = "footer"
    /\ UNCHANGED <<ui, records, idx, cursorY, numPages, curPage, opacity, pageCount,
                   pageNo, ops, acq, saved, chartIds, chartIdx, elements, style>>

\* ------------------------------------ lines 324-343: overlay and export
\* variant: the page count is the one of the fresh document
FinalPageCountStale(n) == 1

\* line 336: const pageCount = doc.getNumberOfPages()
FinalPageCount(n) == n

BeginOverlay ==
    /\ pc = "footer"
    /\ pageCount' = FinalPageCount(numPages)
    /\ pageNo' = 1
    /\ pc' = "overlay"
    /\ UNCHANGED <<ui, records, idx, cursorY, numPages, curPage, opacity, ops, acq,
                   saved, chartIds, chartIdx, elements, style>>

\* variant: the last page is left out
MorePagesButLast(i, n) == i < n

\* the loop condition i <= pageCount
MorePages(i, n) == i <= n

\* lines 337-340: one iteration of the overlay loop
OverlayPage ==
    /\ pc = "overlay"
    /\ MorePages(pageNo, pageCount)
    /\ curPage' = pageNo
    /\ ops' = ops \o StampOps(pageNo, pageNo)
    /\ opacity' = OpacityAfter(StampOps(pageNo, pageNo), opacity)
    /\ pageNo' = pageNo + 1
    /\ UNCHANGED <<ui, records, pc, idx, cursorY, numPages, pageCount, acq, saved,
                   chartIds, chartIdx, elements, style>>

\* line 343: doc.save(...)
Export ==
    /\ pc = "overlay"
    /\ ~MorePages(pageNo, pageCount)
    /\ ops' = Append(ops, Op("save", 0, curPage, Zero, opacity))
    /\ saved' = saved + 1
    /\ pc' = "done"
    /\ UNCHANGED <<ui, records, idx, cursorY, numPages, curPage, opacity, pageCount,
                   pageNo, acq, chartIds, chartIdx, elements, style>>

\* ------------------------------------------------------ specifications
Next ==
    \/ DrawStatic
    \/ DrawTableRow
    \/ EndTable
    \/ ChartsDone
    \/ StartRemoteImage
    \/ SkipRemoteImage
    \/ RemoteLoaded
    \/ RemoteFailed
    \/ BeginDetail
    \/ SkipDetail
    \/ DetailBlockNoImage
    \/ DetailBlockStart
    \/ DetailLoaded
    \/ DetailFailed
    \/ EndLoop
    \/ BeginOverlay
    \/ OverlayPage
    \/ Export

Spec == Init /\ [][Next]_vars

\* Long summary tables: any first record, then records without images
InitTable ==
    /\ \E n \in 0..MaxRows : \E s \in RecordShapes :
         records = [k \in 1..n |-> IF k = 1 THEN s ELSE PlainRecord]
    /\ chartIds = << >>
    /\ elements = {}
    /\ InitCommon

SpecTable == InitTable /\ [][Next]_vars

\* captureChart applied where lines 188-189 would call it
ChartShapes == { PlainRecord, Shape(TRUE, TRUE, TRUE, FALSE) }

InitChart ==
    /\ records \in SeqsUpTo(ChartShapes, MaxRecords)
    /\ chartIds = ChartCalls
    /\ elements \in SUBSET ChartIdSet
    /\ InitCommon

NextChart ==
    \/ Next
    \/ ChartAbsent
    \/ ChartBegin
    \/ ChartCaptured
    \/ ChartFailed

SpecChart == InitChart /\ [][NextChart]_vars

\* generateReport under fair scheduling: the task's own continuations run
\* (TaskSteps), and every started acquisition settles (Settles)
MaxLive == 2

InitLive ==
    /\ records \in SeqsUpTo(RecordShapes, MaxLive)
    /\ chartIds = << >>
    /\ elements = {}
    /\ InitCommon

Settles ==
    \/ RemoteLoaded
    \/ RemoteFailed
    \/ DetailLoaded
    \/ DetailFailed

TaskSteps ==
    \/ DrawStatic
    \/ DrawTableRow
    \/ EndTable
    \/ ChartsDone
    \/ StartRemoteImage
    \/ SkipRemoteImage
    \/ BeginDetail
    \/ SkipDetail
    \/ DetailBlockNoImage
    \/ DetailBlockStart
    \/ EndLoop
    \/ BeginOverlay
    \/ OverlayPage
    \/ Export

SpecLive ==
    InitLive /\ [][Next]_vars /\ WF_vars(TaskSteps) /\ WF_vars(Settles)

\* ------------------------------------- a generateReport invocation starts
\* variant: the document is kept between invocations
SharedDocument == [numPages |-> numPages, curPage |-> curPage, opacity |-> opacity]

\* line 5: const doc = new jsPDF('p', 'mm', 'a4')
NewDocument == [numPages |-> 1, curPage |-> 1, opacity |-> 100]

\* lines 4-8: every invocation has its own doc; cursorY is declared at
\* line 51; no variable of the module outlives a call
Invoke(recs) ==
    /\ records' = recs
    /\ pc' = "start"
    /\ idx' = 0
    /\ cursorY' = Zero
    /\ numPages' = NewDocument.numPages
    /\ curPage' = NewDocument.curPage
    /\ opacity' = NewDocument.opacity
    /\ pageCount' = 0
    /\ pageNo' = 0
    /\ ops' = << >>
    /\ acq' = << >>
    /\ saved' = 0
    /\ chartIdx' = 1
    /\ UNCHANGED <<chartIds, elements, style>>

\* a synchronous jsPDF call outside every try block throws (doc.text of a
\* row at line 125, of a block at lines 262-271, doc.addImage of the logo
\* at line 327, doc.save at line 343): the promise of generateReport rejects
ThrowPcs == {"table", "loop", "overlay"}

ReportThrows ==
    /\ pc \in ThrowPcs
    /\ pc' = "rejected"
    /\ UNCHANGED <<ui, records, idx, cursorY, numPages, curPage, opacity,
                   pageCount, pageNo, ops, acq, saved, chartIds, chartIdx,
                   elements, style>>

\* the same records are rendered a second time
InvokeAgain ==
    /\ pc = "done"
    /\ ~prev.set
    /\ prev' = [set |-> TRUE, records |-> records, ops |-> ops, acq |-> acq]
    /\ Invoke(records)
    /\ UNCHANGED <<dash, files>>

InitAgain ==
    /\ records \in SeqsUpTo(ChartShapes, MaxLive)
    /\ chartIds = << >>
    /\ elements = {}
    /\ InitCommon

NextAgain ==
    \/ Next
    \/ InvokeAgain

SpecAgain == InitAgain /\ [][NextAgain]_vars

\* ------------------------------------------------- Dashboard.jsx
MaxClicks == 2

GenericFailure == "Failed to generate report."
NoSatellite == "Please add at least one satellite image."
NoResults == "Analysis completed but returned no results. Please check input files."
BackendError == "data.error"
RequestError == "err.message"

\* the items arrays handleSatelliteChange is called with (item ids)
Selections == { << >>, <<1>>, <<1, 2>> }
DemFiles == { "null", "dem.tif" }

\* the responses setResult is reached with: non-empty arrays, and a value
\* that is neither falsy nor an array (<< >>: generateReport finds no
\* length on it, so it draws no row and no block)
DashData == { << >>, <<PlainRecord>>, <<Shape(TRUE, FALSE, TRUE, FALSE)>> }

Loaded(data) == [null |-> FALSE, data |-> data]

\* lines 82-86: submit without satellite items
SubmitEmpty ==
    /\ ~loading
    /\ satelliteData = << >>
    /\ error' = NoSatellite
    /\ UNCHANGED <<report, prev, files, satelliteData, dem, result, resultFor,
                   request, loading, downloading, escaped, clicks>>

\* lines 88-99: the request is issued with the items held now, then the
\* handler suspends on analyzeLake; the button is disabled while loading
\* (line 197)
SubmitBegin ==
    /\ ~loading
    /\ satelliteData # << >>
    /\ loading' = TRUE
    /\ error' = NoError
    /\ result' = NullResult
    /\ resultFor' = << >>
    /\ request' = [active |-> TRUE, sel |-> satelliteData]
    /\ UNCHANGED <<report, prev, files, satelliteData, dem, downloading,
                   escaped, clicks>>

\* lines 102-104 and 117-119: the response carries an error field
AnalysisError ==
    /\ request.active
    /\ error' = BackendError
    /\ result' = NullResult
    /\ resultFor' = << >>
    /\ loading' = FALSE
    /\ request' = NoRequest
    /\ UNCHANGED <<report, prev, files, satelliteData, dem, downloading,
                   escaped, clicks>>

\* lines 105-108 and 117-119: the response is an empty array
AnalysisEmpty ==
    /\ request.active
    /\ error' = NoResults
    /\ result' = NullResult
    /\ resultFor' = << >>
    /\ loading' = FALSE
    /\ request' = NoRequest
    /\ UNCHANGED <<report, prev, files, satelliteData, dem, downloading,
                   escaped, clicks>>

\* lines 109-111: setResult(data)
StoreResult(sel, data) == [result |-> Loaded(data), resultFor |-> sel]

\* lines 109-111 and 117-119: the response is stored
AnalysisSuccess ==
    /\ request.active
    /\ \E data \in DashData :
         /\ result' = StoreResult(request.sel, data).result
         /\ resultFor' = StoreResult(request.sel, data).resultFor
    /\ loading' = FALSE
    /\ request' = NoRequest
    /\ UNCHANGED <<report, prev, files, satelliteData, dem, downloading, error,
                   escaped, clicks>>

\* lines 113-119: analyzeLake rejected
AnalysisThrows ==
    /\ request.active
    /\ error' = RequestError
    /\ loading' = FALSE
    /\ request' = NoRequest
    /\ UNCHANGED <<report, prev, files, satelliteData, dem, result, resultFor,
                   downloading, escaped, clicks>>

\* lines 123-132: handleSatelliteChange(items)
HandleSatelliteChange ==
    /\ \E sel \in Selections : satelliteData' = sel
    /\ result' = NullResult
    /\ resultFor' = << >>
    /\ error' = NoError
    /\ UNCHANGED <<report, prev, files, dem, request, loading, downloading,
                   escaped, clicks>>

\* lines 134-137: handleDemChange(items)
HandleDemChange ==
    /\ \E f \in DemFiles : dem' = f
    /\ error' = NoError
    /\ UNCHANGED <<report, prev, files, satelliteData, result, resultFor,
                   request, loading, downloading, escaped, clicks>>

\* line 68: if (!result) return
DownloadIgnored ==
    /\ pc = "idle"
    /\ clicks < MaxClicks
    /\ result.null
    /\ clicks' = clicks + 1
    /\ UNCHANGED <<report, prev, files, satelliteData, dem, result, resultFor,
                   request, loading, downloading, error, escaped>>

\* lines 69-72: setDownloading(true); generateReport(result, projectTitle)
\* is called and awaited; the button is disabled while downloading (line 231)
DownloadBegin ==
    /\ pc = "idle"
    /\ clicks < MaxClicks
    /\ ~result.null
    /\ clicks' = clicks + 1
    /\ downloading' = TRUE
    /\ Invoke(result.data)
    /\ UNCHANGED <<prev, files, satelliteData, dem, result, resultFor, request,
                   loading, error, escaped>>

\* lines 72, 76-78: generateReport resolved; finally
DownloadResolved ==
    /\ pc = "done"
    /\ downloading' = FALSE
    /\ pc' = "idle"
    /\ UNCHANGED <<prev, files, satelliteData, dem, result, resultFor, request,
                   loading, error, escaped, clicks, records, idx, cursorY,
                   numPages, curPage, opacity, pageCount, pageNo, ops, acq,
                   saved, chartIds, chartIdx, elements, style>>

\* variant: no catch block, the rejection leaves the handler
DownloadRethrow(err, n) == [error |-> err, escaped |-> n + 1]

\* lines 73-75: catch (err) { console.error(err); setError(...) }
DownloadCatch(err, n) == [error |-> GenericFailure, escaped |-> n]

\* lines 73-78: generateReport rejected; catch, then finally
DownloadRejected ==
    /\ pc = "rejected"
    /\ error' = DownloadCatch(error, escaped).error
    /\ escaped' = DownloadCatch(error, escaped).escaped
    /\ downloading' = FALSE
    /\ pc' = "idle"
    /\ UNCHANGED <<prev, files, satelliteData, dem, result, resultFor, request,
                   loading, clicks, records, idx, cursorY, numPages, curPage,
                   opacity, pageCount, pageNo, ops, acq, saved, chartIds,
                   chartIdx, elements, style>>

\* no report is being generated
ReportIdle ==
    /\ records = << >>
    /\ pc = "idle"
    /\ idx = 0
    /\ cursorY = Zero
    /\ numPages = 1
    /\ curPage = 1
    /\ opacity = 100
    /\ pageCount = 0
    /\ pageNo = 0
    /\ ops = << >>
    /\ acq = << >>
    /\ saved = 0
    /\ chartIdx = 1
    /\ style = [e \in ChartIdSet |-> "original"]
    /\ chartIds = << >>
    /\ elements = {}

\* the Dashboard as mounted
InitDash ==
    /\ ReportIdle
    /\ InitUi

NextDash ==
    \/ Next
    \/ ReportThrows
    \/ SubmitEmpty
    \/ SubmitBegin
    \/ AnalysisError
    \/ AnalysisEmpty
    \/ AnalysisSuccess
    \/ AnalysisThrows
    \/ HandleSatelliteChange
    \/ HandleDemChange
    \/ DownloadIgnored
    \/ DownloadBegin
    \/ DownloadResolved
    \/ DownloadRejected

SpecDash == InitDash /\ [][NextDash]_vars

\* ------------------------------------------------- FileManager.jsx
MaxIds == 3

\* the file lists an add event may carry (e.target.files)
FileLists == { << >>, <<"a.tif">>, <<"b.tif", "a.tif">> }
Today == "today"
NewDates == { "2024-01-01" }

\* lines 24-28: one item per file; Math.random ids are taken to be fresh
NewItems(fs, withDate, firstId) ==
    [i \in 1..Len(fs) |->
        [id |-> firstId + i - 1, file |-> fs[i],
         date |-> IF withDate THEN Today ELSE "null"]]

\* newItems.slice(0, 1)
SliceFirst(seq) == IF Len(seq) = 0 THEN << >> ELSE << seq[1] >>

\* variant: single mode keeps every new item
AddFilesKeepAll(mult, old, newItems) ==
    IF mult THEN old \o newItems ELSE newItems

\* lines 30-35: [...prev, ...newItems] or newItems.slice(0, 1)
AddFiles(mult, old, newItems) ==
    IF mult THEN old \o newItems ELSE SliceFirst(newItems)

\* line 39: prev.filter(item => item.id !== id)
Remove(old, id) == SelectSeq(old, LAMBDA it : it.id # id)

\* lines 43-45: prev.map(item => item.id === id ? {...item, date} : item)
DateChange(old, id, d) ==
    [i \in 1..Len(old) |->
        IF old[i].id = id THEN [old[i] EXCEPT !.date = d] ELSE old[i]]

\* lines 20-36, then the effect of lines 16-18 (e.target.files not null)
HandleAddFiles ==
    /\ \E fs \in FileLists :
         /\ nextId + Len(fs) - 1 <= MaxIds
         /\ items' = AddFiles(multiple, items, NewItems(fs, showDate, nextId))
         /\ nextId' = nextId + Len(fs)
         /\ event' = Event("add", fs, 0, "null")
    /\ notified' = items'
    /\ UNCHANGED <<report, prev, dash, multiple, showDate>>

\* lines 38-40, then the effect of lines 16-18
HandleRemove ==
    /\ \E id \in 1..MaxIds :
         /\ items' = Remove(items, id)
         /\ event' = Event("remove", << >>, id, "null")
    /\ notified' = items'
    /\ UNCHANGED <<report, prev, dash, multiple, showDate, nextId>>

\* lines 42-46, then the effect of lines 16-18
HandleDateChange ==
    /\ \E id \in 1..MaxIds : \E d \in NewDates :
         /\ items' = DateChange(items, id, d)
         /\ event' = Event("date", << >>, id, d)
    /\ notified' = items'
    /\ UNCHANGED <<report, prev, dash, multiple, showDate, nextId>>

\* a FileManager mounted with any props
InitFiles ==
    /\ ReportIdle
    /\ prev = NoPrev
    /\ InitDashboard
    /\ multiple \in BOOLEAN
    /\ showDate \in BOOLEAN
    /\ InitFileManager

NextFiles ==
    \/ HandleAddFiles
    \/ HandleRemove
    \/ HandleDateChange

SpecFiles == InitFiles /\ [][NextFiles]_vars

\* ------------------------------------------------------------ properties
DetailKinds == {"blockTitle", "blockStats", "blockImage", "blockMarker", "separator"}
StampKinds == {"setOpacity", "watermark", "footer"}
ContentKinds == {"headerBand", "reportTitle", "projectTitle", "mission",
                 "sectionHeader", "tableHeader", "row", "remoteImage",
                 "chartImage"} \cup DetailKinds
DetailSlots == {"comparison_map", "result_image"}

OfKind(kinds) == SelectSeq(ops, LAMBDA o : o.op \in kinds)
BlockOf(k) == SelectSeq(ops, LAMBDA o : o.op \in DetailKinds /\ o.rec = k)
KindsOf(seq) == [i \in 1..Len(seq) |-> seq[i].op]
LoopOver == pc \in {"footer", "overlay", "done"}
FailedDetail(k) ==
    \E i \in 1..Len(acq) :
        acq[i].rec = k /\ acq[i].slot \in DetailSlots /\ acq[i].status = "failed"
LoadedDetail(k) ==
    \E i \in 1..Len(acq) :
        acq[i].rec = k /\ acq[i].slot \in DetailSlots /\ acq[i].status = "loaded"

\* C1: whatever the image outcomes of the records (no reference, loaded,
\* failed), the k-th detail block drawn is the block of records[k], and
\* once the loop is over exactly Len(records) blocks have been drawn.
C1_BlocksInInputOrder ==
    LET titles == OfKind({"blockTitle"})
        seps == OfKind({"separator"}) IN
      /\ \A i \in 1..Len(titles) : titles[i].rec = i
      /\ \A i \in 1..Len(seps) : seps[i].rec = i
      /\ Len(seps) <= Len(titles)
      /\ Len(titles) <= Len(records)
      /\ LoopOver => Len(titles) = Len(records) /\ Len(seps) = Len(records)

C1_Witness ==
    /\ pc = "done"
    /\ Len(records) = 3
    /\ ImgSlot(records[1]) = "none"
    /\ LoadedDetail(2)
    /\ FailedDetail(3)
    /\ Len(OfKind({"blockTitle"})) = 3

\* the parts a finished block of record k must consist of, in order
ExpectedParts(k) ==
    <<"blockTitle", "blockStats">>
      \o (IF ImgSlot(records[k]) = "none" THEN << >>
          ELSE IF FailedDetail(k) THEN <<"blockMarker">> ELSE <<"blockImage">>)
      \o <<"separator">>
Complete(k) == KindsOf(BlockOf(k)) = ExpectedParts(k)
DetailOrdered ==
    LET d == OfKind(DetailKinds) IN
      \A i \in 1..Len(d) : \A j \in i..Len(d) : d[i].rec <= d[j].rec

\* C2: when the acquisition of record i has failed, the blocks of records
\* i-1 and i+1 (when they exist) are complete (title, stats, image or
\* marker, separator) and in input order, and block i itself has its
\* title, its stats line and its separator.
C2_FailureContained ==
    LoopOver =>
      \A i \in 1..Len(records) :
        FailedDetail(i) =>
          /\ i > 1 => Complete(i - 1)
          /\ i < Len(records) => Complete(i + 1)
          /\ KindsOf(BlockOf(i)) = <<"blockTitle", "blockStats", "blockMarker", "separator">>
          /\ DetailOrdered

C2_Witness ==
    /\ pc = "done"
    /\ Len(records) = 3
    /\ LoadedDetail(1)
    /\ FailedDetail(2)
    /\ LoadedDetail(3)
    /\ Complete(1) /\ Complete(3)

StampsOn(kind, p) == { i \in 1..Len(ops) : ops[i].op = kind /\ ops[i].page = p }

\* C3: when the overlay pass has finished, there are as many footers as
\* pages, the stamped numbers are 1..numPages in order, and every page
\* carries exactly one footer (showing its own number) and one watermark.
C3_OverlayComplete ==
    pc = "done" =>
      LET footers == OfKind({"footer"}) IN
        /\ Len(footers) = numPages
        /\ \A i \in 1..Len(footers) : footers[i].no = i
        /\ \A p \in 1..numPages :
             /\ Cardinality(StampsOn("footer", p)) = 1
             /\ Cardinality(StampsOn("watermark", p)) = 1
             /\ \A i \in StampsOn("footer", p) : ops[i].no = p
        /\ \A i \in 1..Len(ops) :
             ops[i].op \in {"footer", "watermark"} => ops[i].page \in 1..numPages

C3_Witness ==
    /\ pc = "done"
    /\ numPages >= 3
    /\ Len(OfKind({"footer"})) = numPages

\* C4: no content is drawn and no page is added after the first footer or
\* watermark stamp: an overlay operation (or the save) is never followed
\* by a content draw, a page-break check or a page creation.
C4_OverlayLast ==
    \A i \in 1..(Len(ops) - 1) :
        ops[i].op \in (StampKinds \cup {"save"}) =>
            ops[i + 1].op \notin (ContentKinds \cup {"addPage", "check"})

C4_Witness ==
    /\ Len(OfKind({"footer"})) >= 2
    /\ Len(OfKind({"addPage"})) >= 2
    /\ Len(OfKind({"blockImage"})) >= 1

ChecksWith(H, broke) ==
    { i \in 1..Len(ops) :
        /\ ops[i].op = "check"
        /\ ops[i].h = Num(H)
        /\ (Gt(Plus(ops[i].y, Num(H)), Num(pageHeight - margin)) <=> broke) }

\* the first operation of the block a check with estimate H belongs to
StartsBlock(o, H) ==
    \/ H = Num(80) /\ o.op = "blockTitle"
    \/ H = Num(120) /\ o.op = "sectionHeader"
                    /\ o.label = "Multi-Temporal 3D Volumetric View"
    \/ H = Num(70) /\ o.op = "sectionHeader" /\ o.label \in ChartIdSet

\* C5: at every page-break check with estimate H (80 detail block, 120
\* remote image, 70 chart snapshot): if cursorY + H > pageHeight - margin a
\* page is created and the block starts on it at margin + 10; otherwise no
\* page is created and the block starts on the current page at cursorY.
C5_PageBreakRule ==
    \A i \in 1..Len(ops) :
      ops[i].op = "check" =>
        LET brk == Gt(Plus(ops[i].y, ops[i].h), Num(pageHeight - margin))
            j == IF brk THEN i + 2 ELSE i + 1 IN
          /\ j <= Len(ops)
          /\ brk => /\ ops[i + 1].op = "addPage"
                    /\ ops[i + 1].page = ops[i].page + 1
          /\ StartsBlock(ops[j], ops[i].h)
          /\ ops[j].page = (IF brk THEN ops[i].page + 1 ELSE ops[i].page)
          /\ ops[j].y = (IF brk THEN Num(margin + 10) ELSE ops[i].y)

C5_Witness ==
    /\ ChecksWith(80, TRUE) # {}
    /\ ChecksWith(80, FALSE) # {}
    /\ ChecksWith(120, TRUE) # {}
    /\ ChecksWith(70, TRUE) # {}
    /\ ChecksWith(70, FALSE) # {}

Rank(a) == IF a.slot = "combined_volume_map" THEN 0 ELSE a.rec
HasOp(kind, k) == \E i \in 1..Len(ops) : ops[i].op = kind /\ ops[i].rec = k

\* an acquisition is finished: settled, and its block drawn or skipped
Finished(a) ==
    /\ a.status # "pending"
    /\ a.slot \in DetailSlots =>
         /\ HasOp("separator", a.rec)
         /\ (a.status = "loaded" <=> HasOp("blockImage", a.rec))
         /\ (a.status = "failed" <=> HasOp("blockMarker", a.rec))
    /\ a.slot = "combined_volume_map" =>
         (a.status = "loaded" <=> HasOp("remoteImage", a.rec))

\* C6: at most one acquisition is pending; acquisitions start in document
\* order (combined map of records[0], then the detail image of each record
\* in turn); every acquisition but the latest is settled and its block
\* drawn or skipped.
C6_OneAtATime ==
    /\ Cardinality({ i \in 1..Len(acq) : acq[i].status = "pending" }) <= 1
    /\ \A i \in 1..Len(acq) :
         /\ i < Len(acq) => Finished(acq[i]) /\ Rank(acq[i]) < Rank(acq[i + 1])
         /\ acq[i].slot = "combined_volume_map" => i = 1 /\ acq[i].rec = 1
         /\ acq[i].slot \in DetailSlots => acq[i].slot = ImgSlot(records[acq[i].rec])
         /\ acq[i].status = "pending" => pc \in {"awaitRemote", "awaitDetail"}

C6_Witness ==
    /\ Len(acq) = 4
    /\ acq[4].status = "pending"
    /\ acq[1].status = "failed"
    /\ acq[2].status = "loaded"
    /\ acq[3].status = "failed"

ImageKinds == {"remoteImage", "blockImage", "chartImage"}

AnyFailed == \E i \in 1..Len(acq) : acq[i].status = "failed"

Exported ==
    /\ pc = "done"
    /\ saved = 1
    /\ Len(OfKind({"footer"})) = numPages

\* positions from which the task goes on (every one has a next step)
RunningPcs == {"start", "table", "charts", "maps", "awaitRemote", "detail",
               "loop", "awaitDetail", "footer", "overlay"}

\* C8: after an acquisition failure the invocation is never rejected or
\* stopped early: the task is at a position from which it goes on, or it
\* is done, and then every page has been stamped and the document saved.
C8_FailuresNeverAbort ==
    AnyFailed =>
      /\ pc \in RunningPcs \cup {"done"}
      /\ pc = "done" => Exported

C8_Witness ==
    /\ pc = "done"
    /\ saved = 1
    /\ Len(acq) = 4
    /\ \A i \in 1..Len(acq) : acq[i].status = "failed"

\* C9: all parts of a record's block are on one page, and no page is
\* created (and no page-break check made) between two parts of a block:
\* every part other than the title directly follows another part of the
\* same record on the same page, and a record has one title only.
C9_BlockOnOnePage ==
    /\ \A i \in 1..Len(ops) :
         (ops[i].op \in DetailKinds /\ ops[i].op # "blockTitle") =>
           /\ i > 1
           /\ ops[i - 1].op \in DetailKinds
           /\ ops[i - 1].rec = ops[i].rec
           /\ ops[i - 1].page = ops[i].page
    /\ LET titles == OfKind({"blockTitle"}) IN
         \A i \in 1..Len(titles) : \A j \in (i + 1)..Len(titles) :
           titles[i].rec # titles[j].rec

C9_Witness ==
    \E i \in 1..Len(ops) :
      /\ ops[i].op = "check"
      /\ i + 2 <= Len(ops)
      /\ ops[i + 1].op = "addPage"
      /\ ops[i + 2].op = "blockTitle"
      /\ LoadedDetail(ops[i + 2].rec)
      /\ Complete(ops[i + 2].rec)

\* C10: no summary-table row is drawn past pageHeight - margin: a row that
\* would not fit causes a page break before it is drawn.
C10_RowsWithinPage ==
    \A i \in 1..Len(ops) :
      ops[i].op = "row" => Leq(Plus(ops[i].y, Num(8)), Num(pageHeight - margin))

NoDetailRef(k) == ~records[k].comparison_map /\ ~records[k].result_image
DetailAcqs(k) ==
    { i \in 1..Len(acq) : acq[i].rec = k /\ acq[i].slot # "combined_volume_map" }

\* C12: for a record with neither comparison_map nor result_image no
\* acquisition is attempted and no marker is drawn; its block is title
\* line, stats line and separator, and the records after it are drawn.
C12_MissingImageSilent ==
    \A k \in 1..Len(records) :
      NoDetailRef(k) =>
        /\ DetailAcqs(k) = {}
        /\ ~HasOp("blockMarker", k)
        /\ ~HasOp("blockImage", k)
        /\ HasOp("separator", k) =>
             KindsOf(BlockOf(k)) = <<"blockTitle", "blockStats", "separator">>
        /\ LoopOver =>
             \A j \in k..Len(records) : HasOp("blockTitle", j) /\ HasOp("separator", j)

C12_Witness ==
    /\ pc = "done"
    /\ Len(records) = 3
    /\ NoDetailRef(2)
    /\ FailedDetail(1)
    /\ LoadedDetail(3)
    /\ KindsOf(BlockOf(2)) = <<"blockTitle", "blockStats", "separator">>

\* C13: each record causes at most one detail-image acquisition, for
\* comparison_map when it is present and for result_image otherwise; after
\* a failure there is no second attempt and no use of the other slot.
C13_OneAttemptPerRecord ==
    \A k \in 1..Len(records) :
      /\ Cardinality(DetailAcqs(k)) <= 1
      /\ \A i \in DetailAcqs(k) :
           IF records[k].comparison_map
           THEN acq[i].slot = "comparison_map"
           ELSE records[k].result_image /\ acq[i].slot = "result_image"

C13_Witness ==
    /\ pc = "done"
    /\ Len(records) >= 2
    /\ records[2].comparison_map /\ records[2].result_image
    /\ FailedDetail(2)
    /\ Cardinality(DetailAcqs(2)) = 1
    /\ \A i \in DetailAcqs(2) : acq[i].slot = "comparison_map"
    /\ ~records[1].comparison_map /\ records[1].result_image
    /\ \A i \in DetailAcqs(1) : acq[i].slot = "result_image"

CompositeSlots == {"composite_map", "combined_volume_map"}
RemoteHeading == "Multi-Temporal 3D Volumetric View"
AcqsOf(slot) == { i \in 1..Len(acq) : acq[i].slot = slot }
HeadingsOf(label) ==
    { i \in 1..Len(ops) : ops[i].op = "sectionHeader" /\ ops[i].label = label }
RemoteImages == { i \in 1..Len(ops) : ops[i].op = "remoteImage" }

\* C14: whole-document composite images are acquired and drawn at most
\* once per slot and only for records[0]; the composite_map and
\* combined_volume_map of later records are never acquired or drawn.
C14_CompositeOnlyFirstRecord ==
    /\ \A i \in 1..Len(acq) : acq[i].slot \in CompositeSlots => acq[i].rec = 1
    /\ \A slot \in CompositeSlots : Cardinality(AcqsOf(slot)) <= 1
    /\ \A i \in RemoteImages : ops[i].rec = 1
    /\ Cardinality(RemoteImages) <= 1
    /\ Cardinality(HeadingsOf(RemoteHeading)) <= 1
    /\ (Len(records) = 0 \/ ~records[1].combined_volume_map) =>
         /\ AcqsOf("combined_volume_map") = {}
         /\ HeadingsOf(RemoteHeading) = {}

C14_Witness ==
    /\ pc = "done"
    /\ Len(records) = 3
    /\ ~records[1].combined_volume_map
    /\ records[2].combined_volume_map /\ records[2].composite_map
    /\ records[3].combined_volume_map
    /\ HeadingsOf(RemoteHeading) = {}

PastMaps == pc \notin {"start", "table", "charts", "maps"}
SlotPresent(r, slot) ==
    IF slot = "composite_map" THEN r.composite_map ELSE r.combined_volume_map

\* C15 as stated: each composite slot present on records[0] (composite_map,
\* combined_volume_map) yields exactly one standalone image section.
C15_EachCompositeSlotDrawn ==
    (PastMaps /\ Len(records) > 0) =>
      \A slot \in CompositeSlots :
        SlotPresent(records[1], slot) => Cardinality(AcqsOf(slot)) = 1

\* C15 as amended: a combined_volume_map present on records[0] yields
\* exactly one standalone section (one heading, one acquisition), after
\* all summary rows and before the Detailed Analysis section; composite_map
\* yields no section and no acquisition.
C15_CombinedMapSection ==
    /\ AcqsOf("composite_map") = {}
    /\ (PastMaps /\ Len(records) > 0 /\ records[1].combined_volume_map) =>
         /\ Cardinality(AcqsOf("combined_volume_map")) = 1
         /\ Cardinality(HeadingsOf(RemoteHeading)) = 1
         /\ \A h \in HeadingsOf(RemoteHeading) :
              /\ Cardinality({ i \in 1..h : ops[i].op = "row" }) = Len(records)
              /\ \A i \in 1..h :
                   ops[i].op \notin DetailKinds /\ i \notin HeadingsOf("Detailed Analysis")
              /\ \A i \in RemoteImages :
                   /\ h < i
                   /\ \A j \in HeadingsOf("Detailed Analysis") : i < j

C15_Witness ==
    /\ pc = "done"
    /\ Len(records) >= 2
    /\ records[1].combined_volume_map /\ records[1].composite_map
    /\ Cardinality(RemoteImages) = 1
    /\ Cardinality(HeadingsOf("Detailed Analysis")) = 1

DetailHeading == "Detailed Analysis"

\* C16: for non-empty records the Detailed Analysis heading comes right
\* after a page creation, at margin + 10 on a page with index >= 2, and
\* every part of every detail block is on a page with index >= 2.
C16_DetailOnNewPage ==
    /\ \A i \in 1..Len(ops) : ops[i].op \in DetailKinds => ops[i].page >= 2
    /\ \A h \in HeadingsOf(DetailHeading) :
         /\ ops[h].page >= 2
         /\ ops[h].y = Num(margin + 10)
         /\ h > 1
         /\ ops[h - 1].op = "addPage"
         /\ ops[h - 1].page = ops[h].page
         /\ \A i \in 1..Len(ops) : ops[i].op \in DetailKinds => h < i
    /\ (Len(records) > 0 /\ pc \in {"loop", "awaitDetail", "footer", "overlay", "done"}) =>
         Cardinality(HeadingsOf(DetailHeading)) = 1

C16_Witness ==
    /\ pc = "done"
    /\ Len(records) = 1
    /\ ~records[1].combined_volume_map
    /\ numPages = 2
    /\ \E i \in 1..Len(ops) : ops[i].op = "blockTitle" /\ ops[i].page = 2
    /\ \A h \in HeadingsOf(DetailHeading) : ops[h].page = 2

LastAddPage(log) ==
    CHOOSE i \in 1..Len(log) :
      /\ log[i].op = "addPage"
      /\ \A j \in (i + 1)..Len(log) : log[j].op # "addPage"

\* C17: a step that creates no page never decreases cursorY; a step that
\* creates a page creates exactly one, the first thing drawn after it is
\* at margin + 10 on the new page, and cursorY is at least margin + 10
\* afterwards; cursorY decreases only in steps that create a page.
C17_CursorMonotone ==
    [][ /\ numPages' = numPages => Leq(cursorY, cursorY')
        /\ numPages' # numPages =>
             /\ numPages' = numPages + 1
             /\ Leq(Num(margin + 10), cursorY')
             /\ LastAddPage(ops') > Len(ops)
             /\ LastAddPage(ops') < Len(ops')
             /\ ops'[LastAddPage(ops') + 1].y = Num(margin + 10)
             /\ ops'[LastAddPage(ops') + 1].page = numPages'
        /\ Gt(cursorY, cursorY') => numPages' = numPages + 1 ]_vars

C17_Witness ==
    /\ pc = "done"
    /\ numPages >= 4
    /\ Gt(cursorY, Num(margin + 10))
    /\ ChecksWith(80, TRUE) # {}
    /\ ChecksWith(120, TRUE) # {}

\* C18: the summary table has one row per record, row k being that of
\* records[k]; all rows are drawn before any acquisition is started and
\* before any image or detail block is drawn.
C18_TableRowsFirst ==
    LET rows == OfKind({"row"}) IN
      /\ \A i \in 1..Len(rows) : rows[i].rec = i
      /\ Len(rows) <= Len(records)
      /\ pc \notin {"start", "table"} => Len(rows) = Len(records)
      /\ acq # << >> => Len(rows) = Len(records)
      /\ \A j \in 1..Len(ops) :
           ops[j].op \in (DetailKinds \cup ImageKinds) =>
             Cardinality({ i \in 1..j : ops[i].op = "row" }) = Len(records)

C18_Witness ==
    /\ pc = "done"
    /\ Len(records) >= 10
    /\ Len(OfKind({"row"})) = Len(records)
    /\ Len(acq) = 2
    /\ Cardinality(RemoteImages) = 1

\* C19: on every page the overlay pass sets the reduced opacity, draws the
\* watermark, resets the opacity to 100 percent and then draws the footer
\* with the page's 1-based number; no footer is drawn at reduced opacity
\* and the opacity is 100 percent once a page is stamped and at the end.
C19_OverlayOrder ==
    /\ \A i \in 1..Len(ops) :
         ops[i].op = "footer" =>
           /\ i >= 4
           /\ ops[i].alpha = 100
           /\ ops[i].no = ops[i].page
           /\ ops[i - 1].op = "setOpacity" /\ ops[i - 1].alpha = 100
           /\ ops[i - 2].op = "watermark" /\ ops[i - 2].alpha = 36
           /\ ops[i - 2].page = ops[i].page
           /\ ops[i - 3].op = "setOpacity" /\ ops[i - 3].alpha = 36
    /\ \A i \in 1..Len(ops) :
         ops[i].op = "watermark" =>
           /\ ops[i].alpha < 100
           /\ i + 2 <= Len(ops)
           /\ ops[i + 2].op = "footer"
    /\ pc \in {"overlay", "done"} => opacity = 100

C19_Witness ==
    /\ pc = "done"
    /\ numPages >= 3
    /\ opacity = 100
    /\ Len(OfKind({"watermark"})) = numPages
    /\ Len(OfKind({"footer"})) = numPages

\* C20: the document is saved at most once, exactly when the invocation is
\* done; the save is the last operation of all, and when it happens every
\* page already has its footer and its watermark.
C20_ExportOnceAtEnd ==
    /\ saved <= 1
    /\ Len(OfKind({"save"})) = saved
    /\ saved = 1 <=> pc = "done"
    /\ \A i \in 1..Len(ops) :
         ops[i].op = "save" =>
           /\ i = Len(ops)
           /\ \A p \in 1..numPages :
                /\ StampsOn("footer", p) # {}
                /\ StampsOn("watermark", p) # {}

C20_Witness ==
    /\ pc = "done"
    /\ saved = 1
    /\ numPages >= 3
    /\ ops[Len(ops)].op = "save"
    /\ Len(OfKind({"blockImage"})) >= 1

\* C21: no step of generateReport changes the records argument: the array,
\* its order and every field of every record stay as they were, on the
\* success path and on every failure path.
C21_RecordsNeverMutated ==
    [][records' = records]_vars

C21_Witness ==
    /\ pc = "done"
    /\ Len(records) = 3
    /\ FailedDetail(1)
    /\ LoadedDetail(2)
    /\ \E i \in 1..Len(acq) :
         acq[i].slot = "combined_volume_map" /\ acq[i].status = "failed"

\* C23: the header band is drawn exactly once per document: it is the first
\* operation of all, on page 1 at y = 0, before any other content, and no
\* page created by a page break carries one.
C23_HeaderBandOnce ==
    /\ pc # "start" =>
         /\ Len(ops) >= 1
         /\ ops[1].op = "headerBand"
         /\ ops[1].page = 1
         /\ ops[1].y = Zero
    /\ \A i \in 2..Len(ops) : ops[i].op # "headerBand"
    /\ \A i \in 1..Len(ops) : ops[i].op = "headerBand" => ops[i].page = 1

C23_Witness ==
    /\ pc = "done"
    /\ numPages >= 3
    /\ Len(OfKind({"headerBand"})) = 1
    /\ Len(OfKind({"addPage"})) = numPages - 1

\* C26 as stated: after the page-break check with estimate 80, every part
\* of a record's block (title, stats, image or marker, separator) is drawn
\* at a y-offset not beyond pageHeight - margin.
C26_BlockWithinEstimate ==
    \A i \in 1..Len(ops) :
        ops[i].op \in DetailKinds => Leq(ops[i].y, BottomLimit)

\* C27: the standalone remote image is drawn right under its section
\* heading (15 below it, same page), is at most 120 high, and its bottom
\* edge y + h is not beyond pageHeight - margin.
C27_RemoteImageWithinPage ==
    \A i \in RemoteImages :
        /\ Leq(ops[i].h, Num(RemoteMaxH))
        /\ Leq(Plus(ops[i].y, ops[i].h), BottomLimit)
        /\ i > 1
        /\ i - 1 \in HeadingsOf(RemoteHeading)
        /\ ops[i - 1].page = ops[i].page
        /\ ops[i].y = AfterSectionHeader(ops[i - 1].y)

C27_Witness ==
    /\ pc = "done"
    /\ \E i \in RemoteImages :
         /\ ops[i].h = Num(RemoteMaxH)
         /\ ops[i].iw = 4
    /\ ChecksWith(RemoteEstimate, TRUE) # {}

\* C30: with an empty records array no acquisition is started, no page is
\* added, no Detailed Analysis heading and no row or block is drawn, the
\* document has exactly one page, and when it is saved page 1 carries its
\* watermark and the footer numbered 1, both drawn before the save.
C30_EmptyRecords ==
    Len(records) = 0 =>
      /\ acq = << >>
      /\ numPages = 1
      /\ HeadingsOf(DetailHeading) = {}
      /\ \A i \in 1..Len(ops) :
           /\ ops[i].op \notin ({"addPage", "row"} \cup DetailKinds \cup ImageKinds)
           /\ ops[i].page = 1
      /\ pc = "done" =>
           /\ pageCount = 1
           /\ KindsOf(OfKind(StampKinds \cup {"save"})) =
                <<"setOpacity", "watermark", "setOpacity", "footer", "save">>
           /\ \A i \in 1..Len(ops) : ops[i].op = "footer" => ops[i].no = 1

C30_Witness ==
    /\ pc = "done"
    /\ records = << >>
    /\ saved = 1
    /\ Len(OfKind({"footer"})) = 1

AwaitPcs == {"awaitRemote", "awaitDetail"}

\* a step that settles the pending acquisition and exports nothing
OnlySettles ==
    /\ Len(acq') = Len(acq)
    /\ acq'[Len(acq)].status \in {"loaded", "failed"}
    /\ saved' = saved

\* C24: when every started acquisition settles, the invocation eventually
\* exports the document; while the task is suspended on an acquisition
\* nothing has been exported and the only step there is is the settling of
\* that acquisition (no timeout takes the task out of the wait).
C24_EventuallyExported ==
    /\ <>(pc = "done" /\ saved = 1)
    /\ [](pc \in AwaitPcs =>
            /\ saved = 0
            /\ acq # << >>
            /\ acq[Len(acq)].status = "pending")
    /\ [][(pc \in AwaitPcs) => OnlySettles]_vars

C24_Witness ==
    /\ pc = "done"
    /\ saved = 1
    /\ Len(records) = 2
    /\ Len(acq) = 3
    /\ \A i \in 1..Len(acq) : acq[i].status # "pending"

\* a step of handleDownload that follows the rejection of generateReport
AfterRejection ==
    /\ pc' = "idle"
    /\ error' = GenericFailure
    /\ ~downloading'
    /\ escaped' = escaped

\* a step that starts a generation
StartsGeneration == pc = "idle" /\ pc' # "idle"

DownloadStep ==
    /\ (pc = "rejected" /\ pc' # pc) => AfterRejection
    /\ StartsGeneration =>
         /\ ~result.null
         /\ records' = result.data
         /\ downloading'
    /\ (pc = "done" /\ pc' # pc) =>
         (pc' = "idle" /\ ~downloading' /\ error' = error)

\* C22: when generateReport rejects, handleDownload sets the error to
\* "Failed to generate report." and the rejection does not leave the
\* handler; downloading is true exactly while a generation is running, so
\* it is false again after success and after failure; with a null result
\* no generation is started.
C22_DownloadHandled ==
    /\ [](escaped = 0)
    /\ [](downloading <=> pc # "idle")
    /\ [][DownloadStep]_vars

C22_Witness ==
    /\ pc = "idle"
    /\ ~downloading
    /\ error = GenericFailure
    /\ clicks = 2
    /\ saved = 1
    /\ ~result.null

\* C28 as stated: whenever result is non-null it is the response of a
\* request that was issued with the satellite items held now.
C28_ResultMatchesSelection ==
    ~result.null => resultFor = satelliteData

\* the native sizes the loaded images of a log reported, in order
Sizes(log) ==
    LET imgs == SelectSeq(log, LAMBDA o : o.op \in ImageKinds) IN
      [i \in 1..Len(imgs) |-> <<imgs[i].iw, imgs[i].ih>>]

\* the second invocation met the same acquisition outcomes as the first
SameOutcomes ==
    /\ prev.set
    /\ prev.records = records
    /\ acq = prev.acq
    /\ Sizes(ops) = Sizes(prev.ops)

Ids(seq) == [i \in 1..Len(seq) |-> seq[i].id]

\* what one FileManager operation may do to the items, read off the event
\* the handler was called with
FileStep ==
    /\ (event'.kind = "add" /\ multiple) =>
         /\ Len(items') = Len(items) + Len(event'.files)
         /\ \A i \in 1..Len(items) : items'[i] = items[i]
         /\ \A j \in 1..Len(event'.files) :
              items'[Len(items) + j].file = event'.files[j]
    /\ (event'.kind = "add" /\ ~multiple) =>
         IF event'.files = << >>
         THEN items' = << >>
         ELSE /\ Len(items') = 1
              /\ items'[1].file = event'.files[1]
              /\ \A i \in 1..Len(items) : items'[1].id # items[i].id
    /\ event'.kind = "remove" =>
         /\ \A i \in 1..Len(items') : items'[i].id # event'.id
         /\ \E keep \in SUBSET (1..Len(items)) :
              /\ keep = { i \in 1..Len(items) : items[i].id # event'.id }
              /\ Len(items') = Cardinality(keep)
              /\ \A i \in 1..Len(items') :
                   items'[i] = items[CHOOSE k \in keep :
                                  Cardinality({ m \in keep : m <= k }) = i]
    /\ event'.kind = "date" =>
         /\ Len(items') = Len(items)
         /\ \A i \in 1..Len(items) :
              /\ items[i].id # event'.id => items'[i] = items[i]
              /\ items[i].id = event'.id =>
                   items'[i] = [items[i] EXCEPT !.date = event'.date]

\* C29: in single mode the list never holds more than one item and an add
\* replaces it with the first newly selected file; in multiple mode an add
\* appends the new items after the unchanged existing ones; remove and
\* date-change touch only the item with the given id.
C29_FileManagerItems ==
    /\ [](~multiple => Len(items) <= 1)
    /\ [](notified = items)
    /\ [][FileStep]_vars

C29_Witness ==
    /\ ~multiple
    /\ Len(items) = 1
    /\ items[1].id = 2
    /\ items[1].file = "b.tif"
    /\ event.kind = "add"
    /\ event.files = <<"b.tif", "a.tif">>

====
